---- MODULE Spec2Model ----
(***************************************************************************)
(* VeryGoodMail e-mail classification: the two classification services.    *)
(*                                                                         *)
(*   ES  Email-System-Server/phobert-service/main.py                       *)
(*       PhoBERTClassifier (model backend), RuleBasedClassifier (keyword   *)
(*       scorer), endpoints /health /classify /sentiment /batch-classify.  *)
(*   PS  PhoBERT-Service/app/main.py and app/classifier.py                 *)
(*       PhoBERTClassifier with one optional model per axis, endpoints     *)
(*       /health /classify /spam /sentiment.                               *)
(*                                                                         *)
(* A text is a sequence of one-character strings, so that lower(), strip() *)
(* and the substring test `kw in text` are computed character by           *)
(* character.  A confidence is an integer number of 1/100000 (0.5 is       *)
(* 50000), a time an integer number of 1/1000 ms.  The letter d with       *)
(* stroke (U+0111, U+0110), which a TLA+ string cannot hold, is written    *)
(* "dd" ("DD").                                                            *)
(***************************************************************************)
EXTENDS Integers, Sequences, FiniteSets, TLC

VARIABLES
    service,      \* which of the two services this process is: "ES" or "PS"
    USE_PHOBERT,  \* ES: the USE_PHOBERT environment flag
    started,      \* the startup event has run
    classifier,   \* the module-level classifier handle (None until loaded)
    request,      \* the request the last handler served
    response,     \* what that handler returned (status 200) or raised (HTTPException)
    calls,        \* the backend invocations that handler made, in order
    results,      \* batch_classify: the list the loop appends to
    next_email    \* batch_classify: the e-mail the loop is at (0: no loop running)

vars ==
    <<service, USE_PHOBERT, started, classifier, request, response, calls, results,
      next_email>>

(***************************************************************************)
(* Bounds of the inputs.                                                   *)
(***************************************************************************)
MaxWords == 2
MaxBatchLen == 2

(***************************************************************************)
(* Python's str operations.                                                *)
(***************************************************************************)
UPPER ==
    <<"A","B","C","D","E","F","G","H","I","J","K","L","M","N","O","P","Q","R","S",
      "T","U","V","W","X","Y","Z","DD","Ễ","Í","Ệ","Ấ","Ư","Ơ">>

LOWER ==
    <<"a","b","c","d","e","f","g","h","i","j","k","l","m","n","o","p","q","r","s",
      "t","u","v","w","x","y","z","dd","ễ","í","ệ","ấ","ư","ơ">>

WHITESPACE == {" ", "\t", "\n", "\r"}

LowerChar(c) ==
    IF \E i \in 1..Len(UPPER) : UPPER[i] = c
    THEN LOWER[CHOOSE i \in 1..Len(UPPER) : UPPER[i] = c]
    ELSE c

\* str.lower()
Lower(text) == [i \in 1..Len(text) |-> LowerChar(text[i])]

\* str.strip(): leading and trailing whitespace removed
Strip(text) ==
    LET keep == {i \in 1..Len(text) : text[i] \notin WHITESPACE}
    IN  IF keep = {} THEN <<>>
        ELSE LET first == CHOOSE i \in keep : \A j \in keep : i <= j
                 last  == CHOOSE i \in keep : \A j \in keep : j <= i
             IN  SubSeq(text, first, last)

\* the substring test `kw in text`
Contains(kw, text) ==
    \/ kw = <<>>
    \/ \E i \in 0..(Len(text) - Len(kw)) :
          text[i + 1] = kw[1] /\ SubSeq(text, i + 1, i + Len(kw)) = kw

\* f"{subject} {body}"
FormatSubjectBody(subject, body) == subject \o <<" ">> \o body

\* dict.get(key, [])
Get(d, key) == IF key \in DOMAIN d THEN d[key] ELSE <<>>

\* sum(1 for kw in keywords if kw in text_lower): one per list entry that occurs
CountHits(keywords, text_lower) ==
    Cardinality({i \in 1..Len(keywords) : Contains(keywords[i], text_lower)})

(***************************************************************************)
(* RuleBasedClassifier: the keyword tables.                                *)
(***************************************************************************)
SPAM_KEYWORDS ==
    [ vi |-> <<
          <<"t","r","ú","n","g"," ","t","h","ư","ở","n","g">>,   \* trúng thưởng
          <<"g","i","ả","m"," ","c","â","n">>,   \* giảm cân
          <<"k","i","ế","m"," ","t","i","ề","n">>,   \* kiếm tiền
          <<"m","i","ễ","n"," ","p","h","í">>,   \* miễn phí
          <<"k","h","u","y","ế","n"," ","m","ã","i"," ","dd","ặ","c"," ","b","i","ệ","t">>,   \* khuyến mãi đặc biệt
          <<"c","l","i","c","k"," ","n","g","a","y">>,   \* click ngay
          <<"n","h","ấ","n"," ","v","à","o"," ","dd","â","y">>,   \* nhấn vào đây
          <<"ư","u"," ","dd","ã","i"," ","s","ố","c">>,   \* ưu đãi sốc
          <<"g","i","ớ","i"," ","h","ạ","n">>,   \* giới hạn
          <<"c","h","ỉ"," ","h","ô","m"," ","n","a","y">>    \* chỉ hôm nay
      >>,
      en |-> <<
          <<"w","i","n","n","e","r">>,   \* winner
          <<"l","o","t","t","e","r","y">>,   \* lottery
          <<"f","r","e","e"," ","m","o","n","e","y">>,   \* free money
          <<"c","l","i","c","k"," ","h","e","r","e">>,   \* click here
          <<"l","i","m","i","t","e","d"," ","t","i","m","e">>,   \* limited time
          <<"a","c","t"," ","n","o","w">>,   \* act now
          <<"c","o","n","g","r","a","t","u","l","a","t","i","o","n","s">>,   \* congratulations
          <<"s","e","l","e","c","t","e","d">>,   \* selected
          <<"p","r","i","z","e">>,   \* prize
          <<"u","r","g","e","n","t">>    \* urgent
      >> ]

NEGATIVE_KEYWORDS ==
    [ vi |-> <<
          <<"t","h","ấ","t"," ","v","ọ","n","g">>,   \* thất vọng
          <<"t","ệ">>,   \* tệ
          <<"k","é","m">>,   \* kém
          <<"t","ồ","i">>,   \* tồi
          <<"p","h","à","n"," ","n","à","n">>,   \* phàn nàn
          <<"k","h","i","ế","u"," ","n","ạ","i">>,   \* khiếu nại
          <<"h","ủ","y">>,   \* hủy
          <<"t","ừ"," ","c","h","ố","i">>    \* từ chối
      >>,
      en |-> <<
          <<"d","i","s","a","p","p","o","i","n","t","e","d">>,   \* disappointed
          <<"t","e","r","r","i","b","l","e">>,   \* terrible
          <<"w","o","r","s","t">>,   \* worst
          <<"c","o","m","p","l","a","i","n","t">>,   \* complaint
          <<"c","a","n","c","e","l">>,   \* cancel
          <<"r","e","f","u","s","e">>,   \* refuse
          <<"a","n","g","r","y">>,   \* angry
          <<"f","r","u","s","t","r","a","t","e","d">>    \* frustrated
      >> ]

POSITIVE_KEYWORDS ==
    [ vi |-> <<
          <<"c","ả","m"," ","ơ","n">>,   \* cảm ơn
          <<"t","u","y","ệ","t"," ","v","ờ","i">>,   \* tuyệt vời
          <<"x","u","ấ","t"," ","s","ắ","c">>,   \* xuất sắc
          <<"h","à","i"," ","l","ò","n","g">>,   \* hài lòng
          <<"t","ố","t">>,   \* tốt
          <<"y","ê","u"," ","t","h","í","c","h">>    \* yêu thích
      >>,
      en |-> <<
          <<"t","h","a","n","k">>,   \* thank
          <<"e","x","c","e","l","l","e","n","t">>,   \* excellent
          <<"g","r","e","a","t">>,   \* great
          <<"w","o","n","d","e","r","f","u","l">>,   \* wonderful
          <<"a","p","p","r","e","c","i","a","t","e">>,   \* appreciate
          <<"l","o","v","e">>,   \* love
          <<"a","m","a","z","i","n","g">>    \* amazing
      >> ]

CATEGORY_PATTERNS ==
    [ important |-> <<
          <<"u","r","g","e","n","t">>,   \* urgent
          <<"i","m","p","o","r","t","a","n","t">>,   \* important
          <<"a","c","t","i","o","n"," ","r","e","q","u","i","r","e","d">>,   \* action required
          <<"k","h","ẩ","n"," ","c","ấ","p">>,   \* khẩn cấp
          <<"q","u","a","n"," ","t","r","ọ","n","g">>,   \* quan trọng
          <<"c","ầ","n"," ","x","ử"," ","l","ý">>    \* cần xử lý
      >>,
      social |-> <<
          <<"f","r","i","e","n","d">>,   \* friend
          <<"f","o","l","l","o","w">>,   \* follow
          <<"l","i","k","e">>,   \* like
          <<"c","o","m","m","e","n","t">>,   \* comment
          <<"b","ạ","n"," ","b","è">>,   \* bạn bè
          <<"t","h","e","o"," ","d","õ","i">>,   \* theo dõi
          <<"b","ì","n","h"," ","l","u","ậ","n">>    \* bình luận
      >>,
      promotions |-> <<
          <<"s","a","l","e">>,   \* sale
          <<"d","i","s","c","o","u","n","t">>,   \* discount
          <<"o","f","f","e","r">>,   \* offer
          <<"d","e","a","l">>,   \* deal
          <<"g","i","ả","m"," ","g","i","á">>,   \* giảm giá
          <<"k","h","u","y","ế","n"," ","m","ã","i">>,   \* khuyến mãi
          <<"ư","u"," ","dd","ã","i">>    \* ưu đãi
      >>,
      updates |-> <<
          <<"s","h","i","p","p","e","d">>,   \* shipped
          <<"d","e","l","i","v","e","r","e","d">>,   \* delivered
          <<"u","p","d","a","t","e">>,   \* update
          <<"n","o","t","i","f","i","c","a","t","i","o","n">>,   \* notification
          <<"g","i","a","o"," ","h","à","n","g">>,   \* giao hàng
          <<"c","ậ","p"," ","n","h","ậ","t">>,   \* cập nhật
          <<"t","h","ô","n","g"," ","b","á","o">>    \* thông báo
      >> ]

\* CATEGORY_PATTERNS.items(): the dict's insertion order
CATEGORY_ORDER == <<"important", "social", "promotions", "updates">>

Min(a, b) == IF a <= b THEN a ELSE b

Max(a, b) == IF a >= b THEN a ELSE b

(***************************************************************************)
(* RuleBasedClassifier.classify, axis by axis.                             *)
(***************************************************************************)
\* spam_score: the language's list followed by the "en" list, one per entry found
SpamScore(text_lower, language) ==
    CountHits(Get(SPAM_KEYWORDS, language) \o SPAM_KEYWORDS["en"], text_lower)

\* the threshold taken as "more than 2"
IsSpam_Above2(spam_score) == spam_score > 2

IsSpam(spam_score) == spam_score >= 2

\* the spam confidence without its 0.95 ceiling
SpamConf_Uncapped(spam_score) ==
    IF IsSpam(spam_score)
    THEN 50000 + spam_score * 10000
    ELSE Max(50000 - spam_score * 10000, 10000)

SpamConf(spam_score) ==
    IF IsSpam(spam_score)
    THEN Min(50000 + spam_score * 10000, 95000)
    ELSE Max(50000 - spam_score * 10000, 10000)

PosScore(text_lower, language) ==
    CountHits(Get(POSITIVE_KEYWORDS, language) \o POSITIVE_KEYWORDS["en"], text_lower)

NegScore(text_lower, language) ==
    CountHits(Get(NEGATIVE_KEYWORDS, language) \o NEGATIVE_KEYWORDS["en"], text_lower)

\* a tie of the counts read as "positive"
RuleSentiment_TieIsPositive(pos_score, neg_score) ==
    IF pos_score >= neg_score
    THEN [sentiment |-> "positive", sent_conf |-> Min(50000 + pos_score * 10000, 90000)]
    ELSE [sentiment |-> "negative", sent_conf |-> Min(50000 + neg_score * 10000, 90000)]

\* the tie given the confidence of its count instead of the fixed 0.6
RuleSentiment_TieFromCount(pos_score, neg_score) ==
    IF pos_score > neg_score
    THEN [sentiment |-> "positive", sent_conf |-> Min(50000 + pos_score * 10000, 90000)]
    ELSE IF neg_score > pos_score
    THEN [sentiment |-> "negative", sent_conf |-> Min(50000 + neg_score * 10000, 90000)]
    ELSE [sentiment |-> "neutral", sent_conf |-> Min(50000 + pos_score * 10000, 90000)]

RuleSentiment(pos_score, neg_score) ==
    IF pos_score > neg_score
    THEN [sentiment |-> "positive", sent_conf |-> Min(50000 + pos_score * 10000, 90000)]
    ELSE IF neg_score > pos_score
    THEN [sentiment |-> "negative", sent_conf |-> Min(50000 + neg_score * 10000, 90000)]
    ELSE [sentiment |-> "neutral", sent_conf |-> 60000]

\* category_scores[cat]
CategoryScores(text_lower) ==
    [cat \in DOMAIN CATEGORY_PATTERNS |-> CountHits(CATEGORY_PATTERNS[cat], text_lower)]

\* max(category_scores.values())
MaxScore(category_scores) ==
    CHOOSE m \in {category_scores[c] : c \in DOMAIN category_scores} :
        \A c \in DOMAIN category_scores : category_scores[c] <= m

\* the last key, in the dict's order, whose score is the maximum
MaxKey_LastOfTies(category_scores) ==
    LET best == MaxScore(category_scores)
        i == CHOOSE k \in 1..Len(CATEGORY_ORDER) :
                /\ category_scores[CATEGORY_ORDER[k]] = best
                /\ \A j \in (k + 1)..Len(CATEGORY_ORDER) :
                      category_scores[CATEGORY_ORDER[j]] # best
    IN  CATEGORY_ORDER[i]

\* max(category_scores, key=category_scores.get): the first key, in the dict's
\* order, whose score is the maximum
MaxKey(category_scores) ==
    LET best == MaxScore(category_scores)
        i == CHOOSE k \in 1..Len(CATEGORY_ORDER) :
                /\ category_scores[CATEGORY_ORDER[k]] = best
                /\ \A j \in 1..(k - 1) : category_scores[CATEGORY_ORDER[j]] # best
    IN  CATEGORY_ORDER[i]

RuleCategory(category_scores) ==
    IF MaxScore(category_scores) > 0
    THEN LET category == MaxKey(category_scores)
         IN  [category |-> category,
              cat_conf |-> Min(50000 + category_scores[category] * 15000, 85000)]
    ELSE [category |-> "primary", cat_conf |-> 60000]

\* the rule-based result without the processing time
RuleClassify_NoTime(text, language) ==
    LET text_lower == Lower(text)
        spam_score == SpamScore(text_lower, language)
        sent == RuleSentiment(PosScore(text_lower, language), NegScore(text_lower, language))
        cat == RuleCategory(CategoryScores(text_lower))
    IN  [is_spam |-> IsSpam(spam_score),
         spam_confidence |-> SpamConf(spam_score),
         category |-> cat.category,
         category_confidence |-> cat.cat_conf,
         sentiment |-> sent.sentiment,
         sentiment_confidence |-> sent.sent_conf]

\* RuleBasedClassifier.classify(text, language)
RuleClassify(text, language) ==
    LET text_lower == Lower(text)
        spam_score == SpamScore(text_lower, language)
        sent == RuleSentiment(PosScore(text_lower, language), NegScore(text_lower, language))
        cat == RuleCategory(CategoryScores(text_lower))
    IN  [is_spam |-> IsSpam(spam_score),
         spam_confidence |-> SpamConf(spam_score),
         category |-> cat.category,
         category_confidence |-> cat.cat_conf,
         sentiment |-> sent.sentiment,
         sentiment_confidence |-> sent.sent_conf,
         processing_time_ms |-> 1000]

(***************************************************************************)
(* The model backend as the services see it: a softmax vector per axis,    *)
(* or an exception out of tokenizer/model.  It is the environment's answer *)
(* to one call, drawn with the request.                                    *)
(***************************************************************************)
Raised(error) == [raise |-> TRUE, error |-> error]

Probs(probs) == [raise |-> FALSE, probs |-> probs]

\* n classes, class k (1-based) the most probable
Peak(n, k) == [i \in 1..n |-> IF i = k THEN 100000 - 2 * (n - 1) ELSE 2]

\* np.argmax / torch.argmax: the 0-based index of the first maximum
ArgMax(probs) ==
    (CHOOSE i \in 1..Len(probs) :
        /\ \A j \in 1..Len(probs) : probs[j] <= probs[i]
        /\ \A j \in 1..(i - 1) : probs[j] < probs[i]) - 1

\* round(x, 4) of a confidence
Round4(x) == ((x + 5) \div 10) * 10

\* round(x, 2) of a time in ms
Round2(t) == ((t + 5) \div 10) * 10

\* a backend invocation, as recorded in calls
Call(backend, fn, ret) == [backend |-> backend, fn |-> fn, ret |-> ret]

Returned(value) == [ok |-> TRUE, value |-> value]

Threw(error) == [ok |-> FALSE, error |-> error]

(***************************************************************************)
(* ES: PhoBERTClassifier (Email-System-Server/phobert-service/main.py).    *)
(***************************************************************************)
None == [kind |-> "None"]

spam_labels == <<"ham", "spam">>

sentiment_labels == <<"negative", "neutral", "positive">>

category_labels == <<"important", "social", "promotions", "updates", "primary">>

\* labels[predicted_idx], which raises IndexError past the end of the list
Predict(labels, out) ==
    IF out.raise THEN Threw(out.error)
    ELSE LET predicted_idx == ArgMax(out.probs)
         IN  IF predicted_idx >= Len(labels)
             THEN Threw("list index out of range")
             ELSE Returned([label |-> labels[predicted_idx + 1],
                            confidence |-> out.probs[predicted_idx + 1]])

predict_spam(out) == Predict(spam_labels, out)

predict_sentiment(out) == Predict(sentiment_labels, out)

predict_category(out) == Predict(category_labels, out)

\* PhoBERTClassifier.classify_email: the three predictions in turn; the first
\* exception leaves the method
ClassifyEmail(o) ==
    LET s == predict_spam(o.spam)
        t == predict_sentiment(o.sentiment)
        c == predict_category(o.category)
        cs == Call("model", "predict_spam", s)
        ct == Call("model", "predict_sentiment", t)
        cc == Call("model", "predict_category", c)
        value == [is_spam |-> s.value.label = "spam",
                  spam_confidence |-> Round4(s.value.confidence),
                  category |-> c.value.label,
                  category_confidence |-> Round4(c.value.confidence),
                  sentiment |-> t.value.label,
                  sentiment_confidence |-> Round4(t.value.confidence),
                  processing_time_ms |-> Round2(o.elapsed)]
    IN  IF ~s.ok THEN [ok |-> FALSE, error |-> s.error,
                       calls |-> <<cs, Call("model", "classify_email", Threw(s.error))>>]
        ELSE IF ~t.ok THEN [ok |-> FALSE, error |-> t.error,
                            calls |-> <<cs, ct, Call("model", "classify_email", Threw(t.error))>>]
        ELSE IF ~c.ok THEN [ok |-> FALSE, error |-> c.error,
                            calls |-> <<cs, ct, cc, Call("model", "classify_email", Threw(c.error))>>]
        ELSE [ok |-> TRUE, value |-> value,
              calls |-> <<cs, ct, cc, Call("model", "classify_email", Returned(value))>>]

\* `classifier and classifier.models_loaded`
ModelReady(clf) == clf # None /\ clf.models_loaded

HTTPException(status_code, detail) == [status |-> status_code, detail |-> detail]

OK(body) == [status |-> 200, body |-> body]

Outcome(resp, log) == [response |-> resp, calls |-> log]

\* the rule-based branch of an endpoint
Fallback(text, language) ==
    LET result == RuleClassify(text, language)
    IN  [ok |-> TRUE, value |-> result,
         calls |-> <<Call("rule", "classify", Returned(result))>>]

\* the model backend used whether or not it is loaded
UseBackend_ModelAlways(clf, full_text, language, o) == ClassifyEmail(o)

\* `if classifier and classifier.models_loaded: ... else: ...`
UseBackend(clf, full_text, language, o) ==
    IF ModelReady(clf) THEN ClassifyEmail(o) ELSE Fallback(full_text, language)

\* POST /classify
ES_classify_email(clf, req, o) ==
    LET full_text == Strip(FormatSubjectBody(req.subject, req.body))
    IN  IF full_text = <<>>
        THEN Outcome(HTTPException(400, <<"Email content cannot be empty">>), <<>>)
        ELSE LET r == UseBackend(clf, full_text, req.language, o)
             IN  IF r.ok
                 THEN Outcome(OK(r.value), r.calls)
                 ELSE Outcome(HTTPException(500, <<"Classification failed: ", r.error>>),
                              r.calls)

\* zip(self.sentiment_labels, probs) as a dict
ZipScores(probs) ==
    [l \in {sentiment_labels[i] : i \in 1..Min(Len(sentiment_labels), Len(probs))} |->
        probs[CHOOSE i \in 1..Len(sentiment_labels) : sentiment_labels[i] = l]]

\* POST /sentiment
ES_analyze_sentiment(clf, req, o) ==
    IF req.text = <<>>
    THEN Outcome(HTTPException(400, <<"Text cannot be empty">>), <<>>)
    ELSE IF ModelReady(clf)
    THEN LET t == predict_sentiment(o.sentiment)
             log == <<Call("model", "predict_sentiment", t)>>
         IN  IF t.ok
             THEN Outcome(OK([sentiment |-> t.value.label,
                              confidence |-> Round4(t.value.confidence),
                              scores |-> ZipScores(o.sentiment.probs)]), log)
             ELSE Outcome(HTTPException(500, <<"Analysis failed: ", t.error>>), log)
    ELSE LET r == Fallback(req.text, "vi")
             base == [positive |-> 33000, neutral |-> 34000, negative |-> 33000]
         IN  Outcome(OK([sentiment |-> r.value.sentiment,
                         confidence |-> Round4(r.value.sentiment_confidence),
                         scores |-> [base EXCEPT ![r.value.sentiment] =
                                        r.value.sentiment_confidence]]), r.calls)

\* an entry that carries an error field on success too
BatchItem_ErrorOnSuccess(clf, email) ==
    LET full_text == Strip(FormatSubjectBody(email.req.subject, email.req.body))
        r == UseBackend(clf, full_text, email.req.language, email.o)
    IN  IF r.ok
        THEN [entry |-> [success |-> TRUE, error |-> ""] @@ r.value, calls |-> r.calls]
        ELSE [entry |-> [success |-> FALSE, error |-> r.error], calls |-> r.calls]

\* one pass of the loop of batch_classify: the try/except around one email
BatchItem(clf, email) ==
    LET full_text == Strip(FormatSubjectBody(email.req.subject, email.req.body))
        r == UseBackend(clf, full_text, email.req.language, email.o)
    IN  IF r.ok
        THEN [entry |-> [success |-> TRUE] @@ r.value, calls |-> r.calls]
        ELSE [entry |-> [success |-> FALSE, error |-> r.error], calls |-> r.calls]

MAX_BATCH == 100

\* GET /health
ES_health_check(clf) ==
    LET model_loaded == IF clf # None THEN clf # None /\ clf.models_loaded ELSE FALSE
    IN  Outcome(OK([status |-> "healthy",
                    model_loaded |-> model_loaded,
                    device |-> IF clf # None THEN clf.device ELSE "cpu",
                    message |-> IF model_loaded THEN "PhoBERT loaded"
                                ELSE "Using rule-based fallback"]), <<>>)

\* a startup that keeps the handle of a classifier whose loading raised
ES_startup_KeepsHandle(use_phobert, load_ok) ==
    IF use_phobert
    THEN [kind |-> "PhoBERTClassifier", models_loaded |-> load_ok, device |-> "cpu"]
    ELSE None

\* startup_event: the handle is kept only if load_models() returns
ES_startup(use_phobert, load_ok) ==
    IF use_phobert
    THEN IF load_ok
         THEN [kind |-> "PhoBERTClassifier", models_loaded |-> TRUE, device |-> "cpu"]
         ELSE None
    ELSE None

(***************************************************************************)
(* PS: PhoBERTClassifier (PhoBERT-Service/app/classifier.py).              *)
(***************************************************************************)
CATEGORIES == <<"primary", "important", "social", "promotions", "updates", "spam">>

SENTIMENTS == <<"negative", "neutral", "positive">>

\* dict.get(pred_class, default) on a dict keyed 0..n-1
LabelGet(labels, pred_class, default) ==
    IF pred_class + 1 \in DOMAIN labels THEN labels[pred_class + 1] ELSE default

\* _load_models: tokenizer, then the three models in turn; a model whose
\* directory is absent stays None; the first exception ends the loading with
\* is_loaded = False and keeps what was assigned before it
PS_load_models(env) ==
    LET unloaded == [kind |-> "PhoBERTClassifier", is_loaded |-> FALSE,
                     tokenizer |-> FALSE, spam_model |-> FALSE,
                     sentiment_model |-> FALSE, category_model |-> FALSE]
        h0 == [unloaded EXCEPT !.tokenizer = TRUE]
        h1 == [h0 EXCEPT !.spam_model = (env.spam = "loaded")]
        h2 == [h1 EXCEPT !.sentiment_model = (env.sentiment = "loaded")]
        h3 == [h2 EXCEPT !.category_model = (env.category = "loaded")]
    IN  IF ~env.tokenizer_ok THEN unloaded
        ELSE IF env.spam = "raise" THEN h0
        ELSE IF env.sentiment = "raise" THEN h1
        ELSE IF env.category = "raise" THEN h2
        ELSE [h3 EXCEPT !.is_loaded =
                 h3.spam_model \/ h3.sentiment_model \/ h3.category_model]

\* startup_event: PhoBERTClassifier(model_path) raises (NameError on torch)
\* when transformers could not be imported, and the handle stays None
PS_startup(env) ==
    IF ~env.transformers_available THEN None ELSE PS_load_models(env)

\* _preprocess: ValueError without a tokenizer, or whatever the tokenizer raises
PS_preprocess_raises(clf, o) == ~clf.tokenizer \/ o.preprocess_raises

\* _predict: (pred_class, confidence)
PS_predict(out) ==
    IF out.raise THEN Threw(out.error)
    ELSE LET pred_class == ArgMax(out.probs)
         IN  Returned([pred_class |-> pred_class, confidence |-> out.probs[pred_class + 1]])

\* PhoBERTClassifier.detect_spam
PS_detect_spam(clf, o) ==
    LET result == [is_spam |-> FALSE, spam_score |-> 0, confidence |-> 0]
        p == PS_predict(o.spam)
    IN  IF ~clf.spam_model THEN [value |-> result, calls |-> <<>>]
        ELSE IF PS_preprocess_raises(clf, o) THEN [value |-> result, calls |-> <<>>]
        ELSE IF ~p.ok
        THEN [value |-> result, calls |-> <<Call("model", "spam_model", p)>>]
        ELSE [value |->
                [is_spam |-> p.value.pred_class = 1,
                 spam_score |-> IF p.value.pred_class = 1 THEN p.value.confidence
                                ELSE 100000 - p.value.confidence,
                 confidence |-> p.value.confidence],
              calls |-> <<Call("model", "spam_model", p)>>]

\* PhoBERTClassifier.analyze_sentiment
PS_analyze_sentiment(clf, o) ==
    LET result == [sentiment |-> "neutral", score |-> 0, confidence |-> 0]
        p == PS_predict(o.sentiment)
    IN  IF ~clf.sentiment_model THEN [value |-> result, calls |-> <<>>]
        ELSE IF PS_preprocess_raises(clf, o) THEN [value |-> result, calls |-> <<>>]
        ELSE IF ~p.ok
        THEN [value |-> result, calls |-> <<Call("model", "sentiment_model", p)>>]
        ELSE [value |->
                [sentiment |-> LabelGet(SENTIMENTS, p.value.pred_class, "neutral"),
                 score |-> p.value.confidence,
                 confidence |-> p.value.confidence],
              calls |-> <<Call("model", "sentiment_model", p)>>]

Sum(confidences) ==
    LET RECURSIVE S(_)
        S(i) == IF i = 0 THEN 0 ELSE confidences[i] + S(i - 1)
    IN  S(Len(confidences))

\* a result prefilled with labels other than the defaults
PS_result_OtherLabels ==
    [category |-> "updates", is_spam |-> TRUE, spam_score |-> 0,
     sentiment |-> "negative", sentiment_score |-> 0, confidence |-> 0]

\* the result as classify prefills it
PS_result ==
    [category |-> "primary", is_spam |-> FALSE, spam_score |-> 0,
     sentiment |-> "neutral", sentiment_score |-> 0, confidence |-> 0]

\* PhoBERTClassifier.classify
PS_classify(clf, o) ==
    LET result == PS_result
        spam_result == PS_detect_spam(clf, o)
        r1 == IF clf.spam_model
              THEN [result EXCEPT !.is_spam = spam_result.value.is_spam,
                                  !.spam_score = spam_result.value.spam_score]
              ELSE result
        c1 == IF clf.spam_model THEN <<spam_result.value.confidence>> ELSE <<>>
        sentiment_result == PS_analyze_sentiment(clf, o)
        r2 == IF clf.sentiment_model
              THEN [r1 EXCEPT !.sentiment = sentiment_result.value.sentiment,
                              !.sentiment_score = sentiment_result.value.score]
              ELSE r1
        c2 == IF clf.sentiment_model
              THEN Append(c1, sentiment_result.value.confidence) ELSE c1
        log2 == spam_result.calls \o sentiment_result.calls
        p == PS_predict(o.category)
        log3 == IF clf.category_model
                THEN Append(log2, Call("model", "category_model", p)) ELSE log2
        r3 == IF clf.category_model
              THEN [r2 EXCEPT !.category = LabelGet(CATEGORIES, p.value.pred_class, "primary")]
              ELSE r2
        c3 == IF clf.category_model THEN Append(c2, p.value.confidence) ELSE c2
    IN  IF ~clf.is_loaded THEN [value |-> result, calls |-> <<>>]
        ELSE IF PS_preprocess_raises(clf, o) THEN [value |-> result, calls |-> <<>>]
        ELSE IF clf.category_model /\ ~p.ok THEN [value |-> r2, calls |-> log3]
        ELSE IF c3 # <<>>
        THEN [value |-> [r3 EXCEPT !.confidence = Sum(c3) \div Len(c3)], calls |-> log3]
        ELSE [value |-> r3, calls |-> log3]

\* `classifier is None or not classifier.is_loaded`
PS_unavailable(clf) == clf = None \/ ~clf.is_loaded

\* POST /classify
PS_classify_email(clf, req, o) ==
    IF PS_unavailable(clf)
    THEN Outcome(HTTPException(503, <<"Model not loaded">>), <<>>)
    ELSE LET text == IF req.text # <<>> THEN req.text
                     ELSE Strip(FormatSubjectBody(req.subject, req.body))
         IN  IF text = <<>>
             THEN Outcome(HTTPException(400, <<"No text provided">>), <<>>)
             ELSE LET r == PS_classify(clf, o)
                  IN  Outcome(OK(r.value),
                              Append(r.calls, Call("model", "classify", Returned(r.value))))

\* POST /spam
PS_detect_spam_endpoint(clf, req, o) ==
    IF PS_unavailable(clf)
    THEN Outcome(HTTPException(503, <<"Model not loaded">>), <<>>)
    ELSE IF req.text = <<>>
    THEN Outcome(HTTPException(400, <<"No text provided">>), <<>>)
    ELSE LET r == PS_detect_spam(clf, o)
         IN  Outcome(OK(r.value),
                     Append(r.calls, Call("model", "detect_spam", Returned(r.value))))

\* POST /sentiment
PS_analyze_sentiment_endpoint(clf, req, o) ==
    IF PS_unavailable(clf)
    THEN Outcome(HTTPException(503, <<"Model not loaded">>), <<>>)
    ELSE IF req.text = <<>>
    THEN Outcome(HTTPException(400, <<"No text provided">>), <<>>)
    ELSE LET r == PS_analyze_sentiment(clf, o)
         IN  Outcome(OK(r.value),
                     Append(r.calls, Call("model", "analyze_sentiment", Returned(r.value))))

\* GET /health
PS_health_check(clf) ==
    Outcome(OK([status |-> "healthy",
                model_loaded |-> clf # None /\ clf.is_loaded,
                version |-> "1.0.0"]), <<>>)

(***************************************************************************)
(* The inputs: requests, and the model backend's answers.                  *)
(***************************************************************************)
Winner == <<"W","i","n","n","e","r">>

Hello == <<"h","e","l","l","o">>

Blank == <<" ","\t">>

\* "miễn phí trúng thưởng click ngay"
PrizeDraw ==
    <<"m","i","ễ","n"," ","p","h","í"," ","t","r","ú","n","g"," ","t","h","ư","ở","n","g",
      " ","c","l","i","c","k"," ","n","g","a","y">>

\* a text the rule-based scorer calls spam, "important" and "positive"
UrgentPrizeThanks == <<"u","r","g","e","n","t"," ","p","r","i","z","e",","," ","t","h","a","n","k","s">>

SubjectPool == {<<>>, Winner, PrizeDraw}

WordPool ==
    { <<"p","r","i","z","e">>,
      <<"u","r","g","e","n","t">>,
      <<"k","h","u","y","ế","n"," ","m","ã","i"," ","dd","ặ","c"," ","b","i","ệ","t">>,
      <<"t","h","a","n","k">>,
      <<"g","r","e","a","t">>,
      <<"t","ệ">>,
      <<"u","n","l","i","k","e">>,
      <<"u","p","d","a","t","e">>,
      Hello }

\* at most n words of WordPool, joined by single spaces
RECURSIVE Joined(_)
Joined(n) ==
    IF n = 0 THEN {<<>>}
    ELSE LET prev == Joined(n - 1)
         IN  prev \cup {IF b = <<>> THEN w ELSE b \o <<" ">> \o w : b \in prev, w \in WordPool}

BodyPool == Joined(MaxWords) \cup {Blank}

Languages == {"vi", "en", "fr"}

ClassifyRequests == [subject : SubjectPool, body : BodyPool, language : Languages]

FewRequests ==
    [subject : {<<>>, <<" ">>, Winner}, body : {<<>>, Blank, Hello}, language : {"vi"}]

SpamOutcomes ==
    { Probs(<<37656, 62344>>), Probs(<<62344, 37656>>), Probs(<<50000, 50000>>),
      Probs(Peak(3, 3)), Raised("inference failed") }

SentimentOutcomes ==
    {Probs(Peak(3, k)) : k \in 1..3} \cup {Probs(Peak(4, 4)), Raised("inference failed")}

CategoryOutcomes ==
    {Probs(Peak(5, k)) : k \in 1..5}
        \cup {Probs(Peak(6, 6)), Probs(Peak(7, 7)), Raised("inference failed")}

ElapsedPool == {12344, 250006}

Oracles ==
    [spam : SpamOutcomes, sentiment : SentimentOutcomes, category : CategoryOutcomes,
     elapsed : ElapsedPool, preprocess_raises : BOOLEAN]

DefaultOracle ==
    [spam |-> Probs(<<37656, 62344>>), sentiment |-> Probs(Peak(3, 3)),
     category |-> Probs(Peak(5, 2)), elapsed |-> 12344, preprocess_raises |-> FALSE]

\* bodies dense in the keywords of one axis, past the confidence ceilings
DensePool ==
    { <<"t","h","a","n","k"," ","g","r","e","a","t"," ","l","o","v","e">>,
      <<"t","e","r","r","i","b","l","e"," ","w","o","r","s","t"," ","a","n","g","r","y">>,
      <<"s","a","l","e"," ","d","i","s","c","o","u","n","t"," ","o","f","f","e","r">>,
      <<"u","r","g","e","n","t"," ","s","h","i","p","p","e","d"," ","u","p","d","a","t","e">> }

DenseRequests == [subject : {<<>>}, body : DensePool, language : Languages]

ClassifyInputs ==
    {[req |-> r, o |-> DefaultOracle] : r \in ClassifyRequests \cup DenseRequests}
        \cup {[req |-> r, o |-> o] :
                 r \in FewRequests, o \in {x \in Oracles : ~x.preprocess_raises}}

TextPool == {<<>>, <<" ">>, Hello, <<"t","h","a","n","k">>, <<"t","ệ">>}

TextInputs ==
    {[req |-> [text |-> t], o |-> [DefaultOracle EXCEPT !.spam = s, !.sentiment = n,
                                                        !.preprocess_raises = p]] :
        t \in TextPool, s \in SpamOutcomes, n \in SentimentOutcomes, p \in BOOLEAN}

PS_ClassifyInputs ==
    {[req |-> r, o |-> o] :
        r \in [subject : {<<>>, Winner}, body : {<<>>, Blank},
               text : {<<>>, <<" ", " ">>, Hello, UrgentPrizeThanks}],
        o \in {x \in Oracles : x.elapsed = DefaultOracle.elapsed}}

\* the e-mails batches are made of: a spam mail, a plain one, an empty one, one whose
\* sentiment prediction raises, one whose category model answers class 5
ItemPool ==
    << [req |-> [subject |-> Winner, body |-> <<"p","r","i","z","e">>, language |-> "en"],
        o |-> DefaultOracle],
       [req |-> [subject |-> <<>>, body |-> Hello, language |-> "vi"],
        o |-> [DefaultOracle EXCEPT !.category = Probs(Peak(5, 5))]],
       [req |-> [subject |-> <<>>, body |-> <<>>, language |-> "vi"],
        o |-> DefaultOracle],
       [req |-> [subject |-> <<>>, body |-> <<"t","ệ">>, language |-> "vi"],
        o |-> [DefaultOracle EXCEPT !.sentiment = Raised("inference failed")]],
       [req |-> [subject |-> <<>>, body |-> <<"u","r","g","e","n","t">>, language |-> "fr"],
        o |-> [DefaultOracle EXCEPT !.category = Probs(Peak(6, 6))]] >>

\* every batch of at most MaxBatchLen e-mails of ItemPool
ShortBatches ==
    UNION {[1..n -> {ItemPool[i] : i \in 1..Len(ItemPool)}] : n \in 0..MaxBatchLen}

\* n e-mails going round ItemPool from off
Cycle(n, off) == [i \in 1..n |-> ItemPool[((i + off) % Len(ItemPool)) + 1]]

\* n e-mails, all the plain one but the k-th, whose prediction raises
OneFails(n, k) == [i \in 1..n |-> IF i = k THEN ItemPool[4] ELSE ItemPool[2]]

LongBatches ==
    {Cycle(n, off) : n \in {MAX_BATCH - 1, MAX_BATCH, MAX_BATCH + 1, MAX_BATCH + MaxBatchLen},
                     off \in 0..1}
        \cup {OneFails(5, k) : k \in 1..5}

Batches == ShortBatches \cup LongBatches

LoadEnvs ==
    [transformers_available : BOOLEAN, tokenizer_ok : BOOLEAN,
     spam : {"absent", "loaded", "raise"}, sentiment : {"absent", "loaded", "raise"},
     category : {"absent", "loaded", "raise"}]

(***************************************************************************)
(* The services as state machines.  A handler runs from request to         *)
(* response in one step, but for batch_classify, whose loop takes one step *)
(* per e-mail (no other handler runs meanwhile: the handlers never await). *)
(* Respond hands the response over and the service waits for the next      *)
(* request.                                                                *)
(***************************************************************************)
Idle == [op |-> "idle"]

NoResponse == [status |-> 0]

Init ==
    /\ service \in {"ES", "PS"}
    /\ USE_PHOBERT \in (IF service = "ES" THEN BOOLEAN ELSE {FALSE})
    /\ started = FALSE
    /\ classifier = None
    /\ request = Idle
    /\ response = NoResponse
    /\ calls = <<>>
    /\ results = <<>>
    /\ next_email = 0

Serve(op, req, out) ==
    /\ request' = [op |-> op, req |-> req]
    /\ response' = out.response
    /\ calls' = out.calls
    /\ UNCHANGED <<service, USE_PHOBERT, started, classifier, results, next_email>>

Accepting(s) == service = s /\ started /\ request = Idle

ES_Startup ==
    /\ service = "ES" /\ ~started
    /\ \E load_ok \in BOOLEAN : classifier' = ES_startup(USE_PHOBERT, load_ok)
    /\ started' = TRUE
    /\ UNCHANGED <<service, USE_PHOBERT, request, response, calls, results, next_email>>

ES_Health ==
    /\ Accepting("ES")
    /\ Serve("health", <<>>, ES_health_check(classifier))

ES_Classify ==
    /\ Accepting("ES")
    /\ \E in \in ClassifyInputs :
          Serve("classify", in.req, ES_classify_email(classifier, in.req, in.o))

ES_Sentiment ==
    /\ Accepting("ES")
    /\ \E in \in TextInputs :
          Serve("sentiment", in.req, ES_analyze_sentiment(classifier, in.req, in.o))

\* the size check taken as `len(emails) >= 100`
ES_Batch_CapOffByOne ==
    /\ Accepting("ES")
    /\ \E emails \in Batches :
          IF Len(emails) >= MAX_BATCH
          THEN Serve("batch", emails,
                     Outcome(HTTPException(400, <<"Maximum 100 emails per batch">>), <<>>))
          ELSE /\ request' = [op |-> "batch", req |-> emails]
               /\ results' = <<>>
               /\ next_email' = 1
               /\ UNCHANGED <<service, USE_PHOBERT, started, classifier, response, calls>>

\* POST /batch-classify: the size check, and `results = []`
ES_Batch ==
    /\ Accepting("ES")
    /\ \E emails \in Batches :
          IF Len(emails) > MAX_BATCH
          THEN Serve("batch", emails,
                     Outcome(HTTPException(400, <<"Maximum 100 emails per batch">>), <<>>))
          ELSE /\ request' = [op |-> "batch", req |-> emails]
               /\ results' = <<>>
               /\ next_email' = 1
               /\ UNCHANGED <<service, USE_PHOBERT, started, classifier, response, calls>>

\* a loop that stops at the first e-mail that raises
ES_BatchStep_FailFast ==
    /\ service = "ES" /\ next_email > 0 /\ next_email <= Len(request.req)
    /\ LET item == BatchItem(classifier, request.req[next_email])
       IN  /\ results' = Append(results, item.entry)
           /\ calls' = Append(calls, [item |-> next_email, calls |-> item.calls])
           /\ next_email' = IF item.entry.success THEN next_email + 1
                            ELSE Len(request.req) + 1
    /\ UNCHANGED <<service, USE_PHOBERT, started, classifier, request, response>>

\* one pass of `for email in emails:`
ES_BatchStep ==
    /\ service = "ES" /\ next_email > 0 /\ next_email <= Len(request.req)
    /\ LET item == BatchItem(classifier, request.req[next_email])
       IN  /\ results' = Append(results, item.entry)
           /\ calls' = Append(calls, [item |-> next_email, calls |-> item.calls])
    /\ next_email' = next_email + 1
    /\ UNCHANGED <<service, USE_PHOBERT, started, classifier, request, response>>

\* a total that counts the successful entries only
ES_BatchReturn_CountsSuccesses ==
    /\ service = "ES" /\ next_email > 0 /\ next_email > Len(request.req)
    /\ response' = OK([results |-> results,
                       total |-> Cardinality({i \in 1..Len(results) : results[i].success})])
    /\ results' = <<>>
    /\ next_email' = 0
    /\ UNCHANGED <<service, USE_PHOBERT, started, classifier, request, calls>>

\* `return {"results": results, "total": len(results)}`
ES_BatchReturn ==
    /\ service = "ES" /\ next_email > 0 /\ next_email > Len(request.req)
    /\ response' = OK([results |-> results, total |-> Len(results)])
    /\ results' = <<>>
    /\ next_email' = 0
    /\ UNCHANGED <<service, USE_PHOBERT, started, classifier, request, calls>>

PS_Startup ==
    /\ service = "PS" /\ ~started
    /\ \E env \in LoadEnvs : classifier' = PS_startup(env)
    /\ started' = TRUE
    /\ UNCHANGED <<service, USE_PHOBERT, request, response, calls, results, next_email>>

PS_Health ==
    /\ Accepting("PS")
    /\ Serve("health", <<>>, PS_health_check(classifier))

PS_Classify ==
    /\ Accepting("PS")
    /\ \E in \in PS_ClassifyInputs :
          Serve("classify", in.req, PS_classify_email(classifier, in.req, in.o))

PS_Spam ==
    /\ Accepting("PS")
    /\ \E in \in TextInputs :
          Serve("spam", in.req, PS_detect_spam_endpoint(classifier, in.req, in.o))

PS_Sentiment ==
    /\ Accepting("PS")
    /\ \E in \in TextInputs :
          Serve("sentiment", in.req, PS_analyze_sentiment_endpoint(classifier, in.req, in.o))

Respond ==
    /\ request # Idle /\ response # NoResponse
    /\ request' = Idle
    /\ response' = NoResponse
    /\ calls' = <<>>
    /\ UNCHANGED <<service, USE_PHOBERT, started, classifier, results, next_email>>

Next ==
    \/ ES_Startup \/ ES_Health \/ ES_Classify \/ ES_Sentiment
    \/ ES_Batch \/ ES_BatchStep \/ ES_BatchReturn
    \/ PS_Startup \/ PS_Health \/ PS_Classify \/ PS_Spam \/ PS_Sentiment
    \/ Respond

Spec == Init /\ [][Next]_vars

(***************************************************************************)
(* What the claims speak of.                                               *)
(***************************************************************************)
CategoryLabels == {"important", "social", "promotions", "updates", "primary"}

SentimentLabels == {"negative", "neutral", "positive"}

Classifying == request.op = "classify"

Batching == request.op = "batch"

\* trim(subject + " " + body)
FullText(req) == Strip(FormatSubjectBody(req.subject, req.body))

\* the text a classify request is about: the text field where the request has one
\* and it is supplied, else subject and body
RequestText(req) ==
    IF "text" \in DOMAIN req /\ req.text # <<>> THEN req.text
    ELSE FormatSubjectBody(req.subject, req.body)

\* the model backend can serve this process's requests
ModelAvailable ==
    IF service = "ES" THEN ModelReady(classifier) ELSE ~PS_unavailable(classifier)

\* a classify request answered by RuleBasedClassifier.classify
RuleServed ==
    /\ Classifying /\ service = "ES" /\ response.status = 200
    /\ Len(calls) = 1 /\ calls[1].backend = "rule"

\* the spam score of the request being served
ServedSpamScore == SpamScore(Lower(FullText(request.req)), request.req.language)

Range(seq) == {seq[i] : i \in 1..Len(seq)}

AllKeywords ==
    UNION {Range(SPAM_KEYWORDS[l]) \cup Range(NEGATIVE_KEYWORDS[l])
              \cup Range(POSITIVE_KEYWORDS[l]) : l \in {"vi", "en"}}
        \cup UNION {Range(CATEGORY_PATTERNS[c]) : c \in DOMAIN CATEGORY_PATTERNS}

NoKeyword(text) ==
    LET text_lower == Lower(text)
    IN  \A kw \in AllKeywords : ~Contains(kw, text_lower)

\* the k-th e-mail of the batch being served raised inside its try block
ItemRaised(k) == ~calls[k].calls[Len(calls[k].calls)].ret.ok

(***************************************************************************)
(* C1: every classify request that is answered carries a category out of   *)
(* important, social, promotions, updates, primary (never "spam") and a    *)
(* sentiment out of negative, neutral, positive, whatever the backend and  *)
(* whatever class index the category model returns.                        *)
(***************************************************************************)
C1_LabelsInRange ==
    (Classifying /\ response.status = 200) =>
        /\ response.body.category \in CategoryLabels
        /\ response.body.category # "spam"
        /\ response.body.sentiment \in SentimentLabels

(***************************************************************************)
(* C2, as claimed: a classify request with non-empty text, served while    *)
(* the model backend is unavailable, is answered with the rule-based       *)
(* scorer's result and never with an error.                                *)
(***************************************************************************)
C2_NeverFailsUnavailable ==
    (Classifying /\ Strip(RequestText(request.req)) # <<>> /\ ~ModelAvailable) =>
        /\ response.status = 200
        /\ Len(calls) = 1 /\ calls[1].backend = "rule"

(***************************************************************************)
(* C2, amended: in the Email-System-Server service such a request is       *)
(* answered with exactly the rule-based scorer's result for the trimmed    *)
(* text and the request's language, the scorer being the only backend      *)
(* invoked; the PhoBERT-Service service has no rule-based scorer and       *)
(* answers it with the 503 "Model not loaded" error, no backend invoked.   *)
(***************************************************************************)
C2_FallbackInESOnly ==
    (Classifying /\ Strip(RequestText(request.req)) # <<>> /\ ~ModelAvailable) =>
        IF service = "ES"
        THEN /\ response = OK(RuleClassify(FullText(request.req), request.req.language))
             /\ Len(calls) = 1 /\ calls[1].backend = "rule"
        ELSE /\ response = HTTPException(503, <<"Model not loaded">>)
             /\ calls = <<>>

C2_Witness ==
    /\ Classifying /\ service = "ES" /\ USE_PHOBERT /\ classifier = None
    /\ FullText(request.req) # <<>>
    /\ response.status = 200 /\ calls[1].backend = "rule"

(***************************************************************************)
(* C3: a classify request whose text is empty after trimming (subject and  *)
(* body, or the supplied text field; whitespace only included) is rejected *)
(* with the empty-input error 400 before any backend is invoked.           *)
(***************************************************************************)
C3_EmptyRejected ==
    (Classifying /\ Strip(RequestText(request.req)) = <<>>) =>
        /\ response.status = 400
        /\ calls = <<>>

(***************************************************************************)
(* C4: a batch of more than 100 e-mails is rejected whole with the 400     *)
(* error and no e-mail is processed; a batch of at most 100 is never       *)
(* rejected, and is answered only once every e-mail has been processed,    *)
(* with one entry per e-mail.                                              *)
(***************************************************************************)
C4_BatchCap ==
    Batching =>
        IF Len(request.req) > 100
        THEN /\ response = HTTPException(400, <<"Maximum 100 emails per batch">>)
             /\ calls = <<>> /\ results = <<>> /\ next_email = 0
        ELSE /\ response.status \in {0, 200}
             /\ response.status = 200 =>
                   /\ Len(response.body.results) = Len(request.req)
                   /\ Len(calls) = Len(request.req)
                   /\ \A i \in 1..Len(calls) : calls[i].item = i /\ calls[i].calls # <<>>

C4_Witness ==
    /\ Batching /\ Len(request.req) = 101
    /\ response.status = 400 /\ calls = <<>>

(***************************************************************************)
(* C5: when the classification of e-mail k of an accepted batch raises,    *)
(* entry k is {success: false, error: message}, and every other e-mail is  *)
(* still processed, with the outcome it has when classified on its own.    *)
(***************************************************************************)
C5_BatchIsolation ==
    (Batching /\ response.status = 200) =>
        /\ Len(calls) = Len(request.req)
        /\ Len(response.body.results) = Len(request.req)
        /\ \A k \in 1..Len(request.req) :
              ItemRaised(k) =>
                  /\ response.body.results[k] =
                        [success |-> FALSE,
                         error |-> calls[k].calls[Len(calls[k].calls)].ret.error]
                  /\ \A i \in 1..Len(request.req) \ {k} :
                        /\ calls[i].calls # <<>>
                        /\ response.body.results[i] =
                              BatchItem(classifier, request.req[i]).entry

C5_Witness ==
    /\ Batching /\ Len(request.req) = 5 /\ response.status = 200
    /\ ItemRaised(3)
    /\ \A i \in {1, 2, 4, 5} : response.body.results[i].success

(***************************************************************************)
(* C6: an accepted batch of n e-mails is answered with n entries, the i-th *)
(* the outcome of the i-th e-mail (what its backend call returned, or the  *)
(* error it raised), and a total of n, failed ones counted.                *)
(***************************************************************************)
C6_BatchOrderAndTotal ==
    (Batching /\ response.status = 200) =>
        /\ Len(response.body.results) = Len(request.req)
        /\ response.body.total = Len(request.req)
        /\ Len(calls) = Len(request.req)
        /\ \A i \in 1..Len(request.req) :
              LET last == calls[i].calls[Len(calls[i].calls)]
                  expected == UseBackend(classifier, FullText(request.req[i].req),
                                         request.req[i].req.language, request.req[i].o)
              IN  /\ calls[i].item = i
                  /\ last.ret.ok = expected.ok
                  /\ IF expected.ok
                     THEN response.body.results[i] = [success |-> TRUE] @@ expected.value
                     ELSE response.body.results[i] =
                              [success |-> FALSE, error |-> expected.error]

C6_Witness ==
    /\ Batching /\ response.status = 200 /\ Len(request.req) = 2
    /\ response.body.total = 2
    /\ ~response.body.results[1].success
    /\ response.body.results[2].success

(***************************************************************************)
(* C7: on a text that holds no keyword of any table the rule-based scorer  *)
(* returns is_spam false, category "primary" with confidence 0.6 and       *)
(* sentiment "neutral" with confidence 0.6, whatever the language, and     *)
(* does not raise (single requests, and the e-mails of a batch).           *)
(***************************************************************************)
C7_NoKeywordDefaults ==
    /\ (Classifying /\ service = "ES" /\ ~ModelReady(classifier)
          /\ FullText(request.req) # <<>> /\ NoKeyword(FullText(request.req))) =>
            /\ response.status = 200
            /\ response.body.is_spam = FALSE
            /\ response.body.category = "primary"
            /\ response.body.category_confidence = 60000
            /\ response.body.sentiment = "neutral"
            /\ response.body.sentiment_confidence = 60000
    /\ (Batching /\ response.status = 200 /\ ~ModelReady(classifier)) =>
            \A i \in 1..Len(request.req) :
                NoKeyword(FullText(request.req[i].req)) =>
                    /\ response.body.results[i].success
                    /\ response.body.results[i].is_spam = FALSE
                    /\ response.body.results[i].category = "primary"
                    /\ response.body.results[i].category_confidence = 60000
                    /\ response.body.results[i].sentiment = "neutral"
                    /\ response.body.results[i].sentiment_confidence = 60000

C7_Witness ==
    /\ RuleServed /\ request.req.language = "fr"
    /\ FullText(request.req) = Hello
    /\ response.body.category = "primary" /\ response.body.sentiment = "neutral"

(***************************************************************************)
(* C8: with s the spam score of the text, the rule-based scorer returns    *)
(* is_spam exactly when s >= 2, with confidence min(0.5 + 0.1 s, 0.95)     *)
(* when spam and max(0.5 - 0.1 s, 0.1) otherwise; the text "miễn phí trúng *)
(* thưởng click ngay" in "vi" has s >= 3, is spam, confidence >= 0.8.      *)
(***************************************************************************)
C8_SpamThresholdAndConfidence ==
    RuleServed =>
        LET s == ServedSpamScore
        IN  /\ response.body.is_spam = (s >= 2)
            /\ response.body.is_spam =>
                  response.body.spam_confidence =
                      (IF 50000 + 10000 * s <= 95000 THEN 50000 + 10000 * s ELSE 95000)
            /\ ~response.body.is_spam =>
                  response.body.spam_confidence =
                      (IF 50000 - 10000 * s >= 10000 THEN 50000 - 10000 * s ELSE 10000)
            /\ (FullText(request.req) = PrizeDraw /\ request.req.language = "vi") =>
                  s >= 3 /\ response.body.is_spam /\ response.body.spam_confidence >= 80000

C8_Witness ==
    /\ RuleServed
    /\ FullText(request.req) = PrizeDraw /\ request.req.language = "vi"
    /\ response.body.is_spam /\ response.body.spam_confidence = 80000

(***************************************************************************)
(* C9, as claimed: the spam confidence never decreases as the spam score   *)
(* rises (the confidence at any lower score is at most the one returned)   *)
(* and lies strictly between 0 and 1.                                      *)
(***************************************************************************)
C9_ConfidenceMonotone ==
    RuleServed =>
        LET s == ServedSpamScore
        IN  /\ \A lower \in 0..(s - 1) :
                  SpamConf(lower) <= response.body.spam_confidence
            /\ 0 < response.body.spam_confidence
            /\ response.body.spam_confidence < 100000

(***************************************************************************)
(* C9, amended: the spam confidence lies strictly between 0 and 1 and      *)
(* never decreases as the spam score rises, except from score 0 to score   *)
(* 1, where it drops from 0.5 to 0.4 (below the threshold the confidence   *)
(* is that of the not-spam verdict).                                       *)
(***************************************************************************)
C9_MonotoneButZeroToOne ==
    RuleServed =>
        LET s == ServedSpamScore
        IN  /\ \A lower \in 0..(s - 1) :
                  <<lower, s>> # <<0, 1>> =>
                      SpamConf(lower) <= response.body.spam_confidence
            /\ s = 1 => response.body.spam_confidence = 40000 /\ SpamConf(0) = 50000
            /\ 0 < response.body.spam_confidence
            /\ response.body.spam_confidence < 100000

C9_Witness ==
    /\ RuleServed /\ ServedSpamScore >= 6
    /\ response.body.spam_confidence = 95000

(***************************************************************************)
(* C10: the spam score is the number of distinct keywords, out of the      *)
(* union of the language's spam keywords and the "en" spam keywords, that  *)
(* occur in the lower-cased text: a keyword of both sets counts once.      *)
(***************************************************************************)
C10_ScoreCountsUnion ==
    RuleServed =>
        LET text_lower == Lower(FullText(request.req))
        IN  ServedSpamScore =
                Cardinality({kw \in Range(Get(SPAM_KEYWORDS, request.req.language))
                                       \cup Range(SPAM_KEYWORDS["en"]) :
                                Contains(kw, text_lower)})


\* a sentiment request answered by RuleBasedClassifier.classify
RuleServedSentiment ==
    /\ request.op = "sentiment" /\ service = "ES" /\ response.status = 200
    /\ Len(calls) = 1 /\ calls[1].backend = "rule"

\* min(0.5 + 0.1 * count, 0.9)
WinnerConfidence(count) ==
    IF 50000 + 10000 * count <= 90000 THEN 50000 + 10000 * count ELSE 90000

\* the sentiment and confidence claimed for p positive and n negative keywords
ClaimedSentiment(p, n) ==
    IF p > n THEN <<"positive", WinnerConfidence(p)>>
    ELSE IF n > p THEN <<"negative", WinnerConfidence(n)>>
    ELSE <<"neutral", 60000>>

(***************************************************************************)
(* C11: with p and n the positive and negative keyword counts of the text, *)
(* the rule-based scorer returns "positive" with confidence                *)
(* min(0.5 + 0.1 p, 0.9) when p > n, "negative" with min(0.5 + 0.1 n, 0.9) *)
(* when n > p, and "neutral" with the fixed 0.6 when p = n, zero or not    *)
(* (classify requests, and sentiment requests, scored in "vi").            *)
(***************************************************************************)
C11_SentimentByCounts ==
    /\ RuleServed =>
          LET text_lower == Lower(FullText(request.req))
              p == PosScore(text_lower, request.req.language)
              n == NegScore(text_lower, request.req.language)
          IN  <<response.body.sentiment, response.body.sentiment_confidence>> =
                  ClaimedSentiment(p, n)
    /\ RuleServedSentiment =>
          LET text_lower == Lower(request.req.text)
              p == PosScore(text_lower, "vi")
              n == NegScore(text_lower, "vi")
          IN  <<response.body.sentiment, response.body.confidence>> =
                  ClaimedSentiment(p, n)

\* "thank tệ" in "vi": one positive and one negative keyword, a tie that is not 0, 0
C11_Witness ==
    /\ RuleServed /\ request.req.language = "vi"
    /\ PosScore(Lower(FullText(request.req)), "vi") = 1
    /\ NegScore(Lower(FullText(request.req)), "vi") = 1
    /\ response.body.sentiment = "neutral"
    /\ response.body.sentiment_confidence = 60000

(***************************************************************************)
(* C12: with the hit counts of the text over important, social,            *)
(* promotions, updates: if the largest is 0 the rule-based scorer returns  *)
(* "primary" with confidence 0.6; otherwise it returns the first category, *)
(* in that order, whose count is the largest, with confidence              *)
(* min(0.5 + 0.15 count, 0.85); "primary" only when all four are 0.        *)
(***************************************************************************)
C12_FirstLargestCategory ==
    RuleServed =>
        LET category_scores == CategoryScores(Lower(FullText(request.req)))
            order == <<"important", "social", "promotions", "updates">>
            count == [k \in 1..4 |-> category_scores[order[k]]]
            largest == CHOOSE m \in {count[k] : k \in 1..4} : \A k \in 1..4 : count[k] <= m
        IN  /\ largest = 0 =>
                  /\ response.body.category = "primary"
                  /\ response.body.category_confidence = 60000
            /\ largest > 0 =>
                  \E k \in 1..4 :
                      /\ count[k] = largest
                      /\ \A j \in 1..(k - 1) : count[j] < largest
                      /\ response.body.category = order[k]
                      /\ response.body.category_confidence =
                            (IF 50000 + 15000 * largest <= 85000
                             THEN 50000 + 15000 * largest ELSE 85000)
            /\ response.body.category = "primary" => \A k \in 1..4 : count[k] = 0

\* one "social" and one "updates" keyword and no other: a tie, won by "social"
C12_Witness ==
    /\ RuleServed
    /\ CategoryScores(Lower(FullText(request.req))) =
          [important |-> 0, social |-> 1, promotions |-> 0, updates |-> 1]
    /\ response.body.category = "social"
    /\ response.body.category_confidence = 65000

\* the text the PhoBERT-Service classify handler hands to its classifier
PS_Text(req) ==
    IF req.text # <<>> THEN req.text ELSE Strip(FormatSubjectBody(req.subject, req.body))

\* a classify request the PhoBERT-Service handler passed on to its classifier
PS_Classified == Classifying /\ service = "PS" /\ response.status = 200

\* the recorded calls of one model of the request being served
CallsOf(fn) == SelectSeq(calls, LAMBDA c : c.fn = fn)

\* the axis has no model while some other axis has one
OnlyAxisMissing(axis) ==
    /\ ~classifier[axis]
    /\ \E other \in {"spam_model", "sentiment_model", "category_model"} : classifier[other]

(***************************************************************************)
(* C13, as claimed: when the model of one axis was never loaded while      *)
(* another axis has its model, a classify request is answered, and the     *)
(* missing axis carries the label and confidence the rule-based scorer     *)
(* computes for the text.                                                  *)
(***************************************************************************)
C13_MissingAxisFromRules ==
    PS_Classified =>
        LET rule == RuleClassify(PS_Text(request.req), "vi")
        IN  /\ OnlyAxisMissing("spam_model") =>
                  /\ response.body.is_spam = rule.is_spam
                  /\ response.body.spam_score = rule.spam_confidence
            /\ OnlyAxisMissing("sentiment_model") =>
                  /\ response.body.sentiment = rule.sentiment
                  /\ response.body.sentiment_score = rule.sentiment_confidence
            /\ OnlyAxisMissing("category_model") =>
                  response.body.category = rule.category

(***************************************************************************)
(* C13, amended: in the PhoBERT-Service service, when the model of one     *)
(* axis was never loaded while another axis has its model, a classify      *)
(* request with text is answered and not aborted; the missing axis carries *)
(* its constant default (is_spam false with score 0.0, sentiment "neutral" *)
(* with score 0.0, category "primary") and its model is not invoked; each  *)
(* axis whose model is loaded and answered carries that model's answer.    *)
(***************************************************************************)
C13_MissingAxisGetsDefault ==
    (Classifying /\ service = "PS" /\ ~PS_unavailable(classifier)
        /\ PS_Text(request.req) # <<>>) =>
        /\ response.status = 200
        /\ OnlyAxisMissing("spam_model") =>
              /\ response.body.is_spam = FALSE /\ response.body.spam_score = 0
              /\ CallsOf("spam_model") = <<>>
        /\ OnlyAxisMissing("sentiment_model") =>
              /\ response.body.sentiment = "neutral" /\ response.body.sentiment_score = 0
              /\ CallsOf("sentiment_model") = <<>>
        /\ OnlyAxisMissing("category_model") =>
              /\ response.body.category = "primary"
              /\ CallsOf("category_model") = <<>>
        /\ \A i \in 1..Len(calls) :
              calls[i].ret.ok =>
                  /\ calls[i].fn = "spam_model" =>
                        response.body.is_spam = (calls[i].ret.value.pred_class = 1)
                  /\ calls[i].fn = "sentiment_model" =>
                        /\ response.body.sentiment =
                              LabelGet(SENTIMENTS, calls[i].ret.value.pred_class, "neutral")
                        /\ response.body.sentiment_score = calls[i].ret.value.confidence
                  /\ calls[i].fn = "category_model" =>
                        response.body.category =
                            LabelGet(CATEGORIES, calls[i].ret.value.pred_class, "primary")

\* no category model: the text the rules call "important" is answered "primary",
\* spam and sentiment coming from their models
C13_Witness ==
    /\ PS_Classified /\ PS_Text(request.req) = UrgentPrizeThanks
    /\ ~classifier.category_model /\ classifier.spam_model /\ classifier.sentiment_model
    /\ RuleClassify(UrgentPrizeThanks, "vi").category = "important"
    /\ response.body.category = "primary"
    /\ Len(CallsOf("spam_model")) = 1 /\ CallsOf("spam_model")[1].ret.ok
    /\ Len(CallsOf("sentiment_model")) = 1 /\ CallsOf("sentiment_model")[1].ret.ok

\* the prediction of the axis raised while the request was served (the calls are
\* named predict_<axis> in one service and <axis>_model in the other)
AxisRaised(axis) ==
    \E i \in 1..Len(calls) :
        /\ calls[i].fn \in {"predict_" \o axis, axis \o "_model"}
        /\ ~calls[i].ret.ok

(***************************************************************************)
(* C14: when the prediction of one axis raises during a classify request   *)
(* on the model path, the request is still answered with a result: that    *)
(* axis has its default (is_spam false, sentiment "neutral", category      *)
(* "primary") and the request as a whole does not fail.                    *)
(***************************************************************************)
C14_AxisErrorDegradesAxis ==
    (Classifying /\ \E axis \in {"spam", "sentiment", "category"} : AxisRaised(axis)) =>
        /\ response.status = 200
        /\ AxisRaised("spam") => response.body.is_spam = FALSE
        /\ AxisRaised("sentiment") => response.body.sentiment = "neutral"
        /\ AxisRaised("category") => response.body.category = "primary"

\* the confidences of the axis predictions that returned while the request was served
ComputedConfidences ==
    LET computed == SelectSeq(calls, LAMBDA c :
                        /\ c.fn \in {"spam_model", "sentiment_model", "category_model"}
                        /\ c.ret.ok)
    IN  [i \in 1..Len(computed) |-> computed[i].ret.value.confidence]

(***************************************************************************)
(* C15: the overall confidence PhoBERTClassifier.classify returns is the   *)
(* arithmetic mean of the confidences of exactly the axes whose prediction *)
(* was computed: an axis whose model is absent, or whose prediction        *)
(* failed, adds nothing to the sum and nothing to the divisor.             *)
(***************************************************************************)
C15_MeanOfComputedAxes ==
    (PS_Classified /\ ComputedConfidences # <<>>) =>
        response.body.confidence =
            Sum(ComputedConfidences) \div Len(ComputedConfidences)

\* the fields of a classification result
ResultFields ==
    {"is_spam", "spam_confidence", "category", "category_confidence",
     "sentiment", "sentiment_confidence", "processing_time_ms"}

(***************************************************************************)
(* C16: every entry of a batch answer with success true carries the        *)
(* classification result fields and no error, and every entry with success *)
(* false carries an error and no result field; none carries both or        *)
(* neither.                                                                *)
(***************************************************************************)
C16_ResultOrError ==
    (Batching /\ response.status = 200) =>
        \A i \in 1..Len(response.body.results) :
            LET entry == response.body.results[i]
            IN  IF entry.success
                THEN DOMAIN entry = {"success"} \cup ResultFields
                ELSE DOMAIN entry = {"success", "error"}

\* a batch answered with an entry of each kind
C16_Witness ==
    /\ Batching /\ response.status = 200 /\ Len(response.body.results) = 2
    /\ DOMAIN response.body.results[1] = {"success"} \cup ResultFields
    /\ DOMAIN response.body.results[2] = {"success", "error"}

(***************************************************************************)
(* C17: in the service that has both backends, every result a classify     *)
(* request is answered with has the same fields, is_spam, spam_confidence, *)
(* category, category_confidence, sentiment, sentiment_confidence,         *)
(* processing_time_ms, all present, whether the model backend or the       *)
(* rule-based scorer produced it.                                          *)
(***************************************************************************)
C17_SameFields ==
    (Classifying /\ service = "ES" /\ response.status = 200) =>
        /\ calls # <<>>
        /\ calls[Len(calls)].backend \in {"model", "rule"}
        /\ DOMAIN response.body = ResultFields

\* a result the model backend produced
C17_Witness ==
    /\ Classifying /\ service = "ES" /\ response.status = 200
    /\ calls[Len(calls)] =
          Call("model", "classify_email", Returned(response.body))
    /\ DOMAIN response.body = ResultFields

(***************************************************************************)
(* C18: an e-mail of a batch whose trim(subject + " " + body) is empty is  *)
(* recorded as a failed entry (success false, with an error) and neither   *)
(* backend is invoked for it.                                              *)
(***************************************************************************)
C18_EmptyItemRejected ==
    (Batching /\ response.status = 200) =>
        \A i \in 1..Len(request.req) :
            FullText(request.req[i].req) = <<>> =>
                /\ ~response.body.results[i].success
                /\ "error" \in DOMAIN response.body.results[i]
                /\ calls[i].calls = <<>>

\* the backend that serves the requests of the Email-System-Server service
ServingBackend == IF ModelReady(classifier) THEN "model" ELSE "rule"

\* after startup: the handle is absent unless the flag is on and the models loaded,
\* health reports what serves, and every backend call is to the serving backend
HealthAgrees ==
    (service = "ES" /\ started) =>
        /\ ~USE_PHOBERT => classifier = None
        /\ classifier # None => classifier.models_loaded
        /\ (request.op = "health" /\ response.status = 200) =>
              /\ response.body.model_loaded = (ServingBackend = "model")
              /\ response.body.model_loaded = FALSE => classifier = None
        /\ request.op \in {"classify", "sentiment"} =>
              \A i \in 1..Len(calls) : calls[i].backend = ServingBackend
        /\ request.op = "batch" =>
              \A i \in 1..Len(calls) :
                  \A j \in 1..Len(calls[i].calls) :
                      calls[i].calls[j].backend = ServingBackend

\* no step after startup changes the flag or the handle
DecidedAtStartup ==
    (service = "ES" /\ started) =>
        /\ classifier' = classifier
        /\ USE_PHOBERT' = USE_PHOBERT
        /\ started'

(***************************************************************************)
(* C19: the backend is decided once at startup and never changes; in every *)
(* state after startup health reports model_loaded true exactly when the   *)
(* model backend serves; with the flag off, or the loading raising, the    *)
(* handle is absent, model_loaded is false and every classify, sentiment   *)
(* and batch request is served by the rule-based scorer.                   *)
(***************************************************************************)
C19_HealthAgreesWithBackend == []HealthAgrees /\ [][DecidedAtStartup]_vars

\* the flag on and the loading raised: health reports false, the rules serve
C19_Witness ==
    /\ service = "ES" /\ started /\ USE_PHOBERT /\ classifier = None
    /\ request.op = "health" /\ response.status = 200
    /\ response.body.model_loaded = FALSE
    /\ response.body.message = "Using rule-based fallback"
====
